---- MODULE Spec2Model ----
(***************************************************************************)
(* CrosswordCreator (CS50AI/crossword/generate.py): node consistency,      *)
(* AC-3 and the backtracking search of solve(), as a state machine.        *)
(*                                                                         *)
(* A word is a tuple of letters, a variable is a record                    *)
(* [i, j, direction, length] as crossword.Variable, self.domains is a      *)
(* function from variables to sets of words and the assignment dict is a   *)
(* function from variables to a word or None.  The recursion of backtrack  *)
(* is an explicit stack of frames; pc is the place in the code.            *)
(*                                                                         *)
(* Python iterates a set in an order that depends on the hashes of its     *)
(* elements (strings: randomised per process).  The iteration order of     *)
(* crossword.variables is drawn once (vorder: self.domains and the         *)
(* assignment dict are both built from it); every iteration of a           *)
(* neighbors() set and of a domain draws its order when it happens.        *)
(***************************************************************************)
EXTENDS Integers, Sequences, FiniteSets, TLC

\* ------------------------------------------------------------------ bounds
\* A vocabulary holds at most MaxWords words of the lexicon.
MaxWords == 6

\* ------------------------------------------------------------ puzzle model
None == <<>>

\* The words a vocabulary file may hold: words of the two slot lengths, over
\* two letters, such that the ring puzzles of five and six words make the
\* search abandon branches.
Lexicon ==
  { <<"A","A","B">>, <<"A","B","A">>, <<"B","A","A">>, <<"B","A","B">>,
    <<"A","A","B","B">>, <<"B","A","A","B">>, <<"B","B","B","A">> }

Var(i, j, direction, length) ==
  [i |-> i, j |-> j, direction |-> direction, length |-> length]

\* ring:   ___     split:  #_##
\*         _#_             ___#
\*         ___             #_##
\*         _##             ####
\*                         ____
Grids == {"ring", "split"}

GridVariables ==
  [g \in Grids |->
     IF g = "ring"
       THEN { Var(0, 0, "across", 3), Var(0, 0, "down", 4),
              Var(0, 2, "down", 3), Var(2, 0, "across", 3) }
       ELSE { Var(0, 1, "down", 3), Var(1, 0, "across", 3),
              Var(4, 0, "across", 4) }]

AllVariables == UNION { GridVariables[g] : g \in Grids }

\* Variable.cells: the k-th cell of the slot, k = 0 .. length - 1.
cell(v, k) ==
  << v.i + (IF v.direction = "down" THEN k ELSE 0),
     v.j + (IF v.direction = "across" THEN k ELSE 0) >>

\* Crossword.overlaps[x, y]: the pair of indices (into x's word, into y's
\* word, from 0) of the cell the two slots share, or None.
overlapsTable ==
  [x \in AllVariables |-> [y \in AllVariables |->
     LET shared == { p \in (0 .. x.length - 1) \X (0 .. y.length - 1) :
                       cell(x, p[1]) = cell(y, p[2]) }
     IN IF x = y \/ shared = {} THEN None ELSE CHOOSE p \in shared : TRUE]]

overlaps(x, y) == overlapsTable[x][y]

\* Crossword.neighbors(var): the variables that share a cell with var.
neighborsTable ==
  [g \in Grids |-> [x \in GridVariables[g] |->
     { y \in GridVariables[g] : y # x /\ overlaps(y, x) # None }]]

\* ------------------------------------------------------------------- state
VARIABLES
  grid,        \* the structure file the Crossword was built from
  words,       \* crossword.words, the vocabulary
  vorder,      \* iteration order of crossword.variables in this process
  domains,     \* self.domains
  assignment,  \* the one assignment dict of the run (<<>> is dict())
  arcs,        \* the list `arcs` of the running ac3 call
  stack,       \* the frames of the backtrack calls that are in their loop
  inferences,  \* what the last ac3 call returned
  retval,      \* what the last finished backtrack call returned
  pc,          \* the place in the code
  outcome,     \* "running", "returned", or the exception that ended solve()
  first        \* what an earlier run of solve() on this crossword returned

vars == << grid, words, vorder, domains, assignment, arcs, stack,
           inferences, retval, pc, outcome, first >>

variables == GridVariables[grid]

neighbors(x) == neighborsTable[grid][x]

\* ---------------------------------------------------------- iteration order
\* The orders in which a set may be iterated.
RECURSIVE Orders(_)
Orders(S) ==
  IF S = {} THEN { <<>> }
  ELSE UNION { { <<e>> \o rest : rest \in Orders(S \ {e}) } : e \in S }

\* ------------------------------------------------------------- node / arc
\* Mutant of node_consistent: no word is removed.
node_consistent_unfiltered(dom) == dom

\* enforce_node_consistency: keep the words of the variable's length.
node_consistent(dom) ==
  [v \in DOMAIN dom |-> { word \in dom[v] : Len(word) = v.length }]

\* Mutant of revised_domain: a word of y's domain is an option also when it
\* is the same word.
revised_domain_same_word(dom, x, y) ==
  LET overlap == overlaps(x, y)
  IN { x_word \in dom[x] :
         \E y_word \in dom[y] :
            x_word[overlap[1] + 1] = y_word[overlap[2] + 1] }

\* revise(x, y): the words of x's domain that keep an option in y's domain.
revised_domain(dom, x, y) ==
  LET overlap == overlaps(x, y)
  IN { x_word \in dom[x] :
         \E y_word \in dom[y] :
            /\ x_word[overlap[1] + 1] = y_word[overlap[2] + 1]
            /\ x_word # y_word }

\* The boolean revise(x, y) returns.
revise(dom, x, y) == revised_domain(dom, x, y) # dom[x]

\* ac3(None), lines 145-150: for x in self.domains, for y in neighbors(x).
RECURSIVE initial_arcs(_, _)
initial_arcs(order, k) ==
  IF k > Len(order) THEN { <<>> }
  ELSE LET x == order[k]
       IN { own \o rest :
              own \in { [n \in DOMAIN ys |-> << x, ys[n] >>] :
                          ys \in Orders(neighbors(x)) },
              rest \in initial_arcs(order, k + 1) }

\* Mutant of requeued_arcs: no arc is put back after a revision.
requeued_arcs_none(x, y) == { <<>> }

\* Lines 161-166: the arcs (z, x) for the neighbours z of x other than y.
requeued_arcs(x, y) ==
  { [n \in DOMAIN zs |-> << zs[n], x >>] :
      zs \in Orders(neighbors(x) \ {y}) }

\* Lines 286-289: the arcs (y, var) for the neighbours y of var.
seeded_arcs(var) ==
  { [n \in DOMAIN ys |-> << ys[n], var >>] : ys \in Orders(neighbors(var)) }

\* ac3 as a function, lines 152-168: what a call that starts with the
\* domains dom and the list as may return, and the domains it leaves.
RECURSIVE ac3_results(_, _)
ac3_results(dom, as) ==
  IF as = <<>> THEN { [result |-> TRUE, domains |-> dom] }
  ELSE LET arc  == as[Len(as)]
           rest == SubSeq(as, 1, Len(as) - 1)
           x    == arc[1]
           y    == arc[2]
           xDomCpy == revised_domain(dom, x, y)
           revised == [dom EXCEPT ![x] = xDomCpy]
       IN IF ~ revise(dom, x, y) THEN ac3_results(revised, rest)
          ELSE IF xDomCpy = {}
            THEN { [result |-> FALSE, domains |-> revised] }
            ELSE UNION { ac3_results(revised, rest \o more) :
                           more \in requeued_arcs(x, y) }

\* Where an ac3 call returns to: solve() drops the result of the global call
\* and calls backtrack; backtrack looks at `inferences`.
ac3_return_pc == IF stack = <<>> THEN "backtrack" ELSE "inferences"

\* ----------------------------------------------------------------- search
\* Mutant of assignment_complete: complete once some variable has a word.
assignment_complete_any(asg) == \E var \in DOMAIN asg : asg[var] # None

\* assignment_complete
assignment_complete(asg) == \A var \in DOMAIN asg : asg[var] # None

\* consistent
consistent(asg) ==
  \A x \in DOMAIN asg :
     asg[x] = None \/
     \A y \in neighbors(x) :
        asg[y] = None \/
        LET overlap == overlaps(x, y)
            x_word == asg[x]
            y_word == asg[y]
        IN ~ ( x_word[overlap[1] + 1] # y_word[overlap[2] + 1]
               \/ x_word = y_word )

\* order_domain_values: options_removed of a word of var's domain.
options_removed(dom, var, word) ==
  Cardinality(
    { p \in UNION { { << n, wn >> : wn \in dom[n] } : n \in neighbors(var) } :
        LET overlap == overlaps(var, p[1])
        IN word[overlap[1] + 1] # p[2][overlap[2] + 1] \/ word = p[2] })

\* The lists sorted() may give: ascending options_removed, ties in the
\* order the domain was iterated.
RECURSIVE sorted_by(_, _, _)
sorted_by(S, dom, var) ==
  IF S = {} THEN { <<>> }
  ELSE LET least == { w \in S : \A u \in S :
                        options_removed(dom, var, w)
                          <= options_removed(dom, var, u) }
       IN UNION { { <<w>> \o rest : rest \in sorted_by(S \ {w}, dom, var) } :
                  w \in least }

\* Mutant of order_domain_values: the words in the order of the iteration.
order_domain_values_unsorted(dom, var) == Orders(dom[var])

order_domain_values(dom, var) == sorted_by(dom[var], dom, var)

Infinity == Cardinality(Lexicon) + 1

\* select_unassigned_variable: the loop over the assignment, from its k-th
\* key on, with min_dom_vals and selected_var as they stand.
RECURSIVE select_from(_, _, _, _, _)
select_from(dom, asg, k, min_dom_vals, selected_var) ==
  IF k > Len(vorder) THEN selected_var
  ELSE LET var == vorder[k]
           size == Cardinality(dom[var])
       IN IF asg[var] = None
             /\ ( size < min_dom_vals
                  \/ ( size = min_dom_vals
                       /\ Cardinality(neighbors(var))
                            > Cardinality(neighbors(selected_var)) ) )
            THEN select_from(dom, asg, k + 1, size, var)
            ELSE select_from(dom, asg, k + 1, min_dom_vals, selected_var)

\* Mutant of select_unassigned_variable: among the variables with the
\* fewest values, one with the fewest neighbours.
select_unassigned_variable_lowest_degree(dom, asg) ==
  CHOOSE var \in DOMAIN asg :
     /\ asg[var] = None
     /\ \A u \in DOMAIN asg :
           asg[u] = None =>
             /\ Cardinality(dom[var]) <= Cardinality(dom[u])
             /\ Cardinality(dom[var]) = Cardinality(dom[u]) =>
                  Cardinality(neighbors(var)) <= Cardinality(neighbors(u))

select_unassigned_variable(dom, asg) ==
  select_from(dom, asg, 1, Infinity, None)

\* Lines 270-272 and 294-296: every unassigned variable whose domain holds
\* one word gets it, and pop() takes the word out of the domain.
Forced(dom, asg) ==
  { var \in DOMAIN asg : asg[var] = None /\ Cardinality(dom[var]) = 1 }

\* Mutant of pop_assignment: no variable is assigned.
pop_assignment_skipped(dom, asg) == asg

pop_assignment(dom, asg) ==
  [var \in DOMAIN asg |->
     IF var \in Forced(dom, asg) THEN CHOOSE w \in dom[var] : TRUE
     ELSE asg[var]]

pop_domains(dom, asg) ==
  [var \in DOMAIN dom |->
     IF var \in Forced(dom, asg) THEN {} ELSE dom[var]]

\* ------------------------------------------------------------------ actions
NoRun == [retval |-> "", assignment |-> <<>>]

\* CrosswordCreator(crossword), lines 12-16, for a crossword of the family.
Init ==
  /\ grid \in Grids
  /\ words \in { ws \in SUBSET Lexicon : Cardinality(ws) <= MaxWords }
  /\ vorder \in Orders(GridVariables[grid])
  /\ domains = [var \in GridVariables[grid] |-> words]
  /\ assignment = <<>>
  /\ arcs = <<>>
  /\ stack = <<>>
  /\ inferences = TRUE
  /\ retval = "None"
  /\ pc = "solve"
  /\ outcome = "running"
  /\ first = NoRun

\* solve(), line 92.
EnforceNodeConsistency ==
  /\ pc = "solve"
  /\ domains' = node_consistent(domains)
  /\ pc' = "ac3"
  /\ UNCHANGED << first, grid, words, vorder, assignment, arcs, stack, inferences,
                  retval, outcome >>

\* solve(), line 93: ac3() with arcs = None builds the list of all arcs.
Ac3InitialArcs ==
  /\ pc = "ac3"
  /\ arcs' \in initial_arcs(vorder, 1)
  /\ pc' = "ac3_loop"
  /\ UNCHANGED << first, grid, words, vorder, domains, assignment, stack,
                  inferences, retval, outcome >>

\* One turn of the while loop of ac3, lines 152-166.
Ac3Revise ==
  /\ pc = "ac3_loop"
  /\ arcs # <<>>
  /\ LET arc  == arcs[Len(arcs)]
         rest == SubSeq(arcs, 1, Len(arcs) - 1)
         x    == arc[1]
         y    == arc[2]
         xDomCpy == revised_domain(domains, x, y)
     IN /\ domains' = [domains EXCEPT ![x] = xDomCpy]
        /\ IF ~ revise(domains, x, y)
             THEN /\ arcs' = rest
                  /\ pc' = "ac3_loop"
                  /\ UNCHANGED inferences
             ELSE IF xDomCpy = {}
               THEN /\ arcs' = rest
                    /\ inferences' = FALSE
                    /\ pc' = ac3_return_pc
               ELSE /\ arcs' \in { rest \o more : more \in requeued_arcs(x, y) }
                    /\ pc' = "ac3_loop"
                    /\ UNCHANGED inferences
  /\ UNCHANGED << first, grid, words, vorder, assignment, stack, retval, outcome >>

\* ac3, line 168: the list is empty.
Ac3ReturnTrue ==
  /\ pc = "ac3_loop"
  /\ arcs = <<>>
  /\ inferences' = TRUE
  /\ pc' = ac3_return_pc
  /\ UNCHANGED << first, grid, words, vorder, domains, assignment, arcs, stack,
                  retval, outcome >>

\* backtrack, lines 293-298: forced inferences, then the recursive call.
ForcedInferences ==
  /\ pc = "inferences"
  /\ IF inferences
       THEN /\ assignment' = pop_assignment(domains, assignment)
            /\ domains' = pop_domains(domains, assignment)
       ELSE UNCHANGED << assignment, domains >>
  /\ pc' = "backtrack"
  /\ UNCHANGED << first, grid, words, vorder, arcs, stack, inferences, retval,
                  outcome >>

\* backtrack, lines 265-279: a call starts; it returns the assignment when
\* complete, else selects a variable and orders its values.
BacktrackEnter ==
  /\ pc = "backtrack"
  /\ LET blank == [var \in variables |-> None]
         asg == IF assignment = <<>>
                  THEN pop_assignment(domains, blank) ELSE assignment
         dom == IF assignment = <<>>
                  THEN pop_domains(domains, blank) ELSE domains
     IN /\ assignment' = asg
        /\ domains' = dom
        /\ IF assignment_complete(asg)
             THEN /\ retval' = "assignment"
                  /\ pc' = "return"
                  /\ UNCHANGED stack
             ELSE LET var == select_unassigned_variable(dom, asg)
                  IN /\ \E values \in order_domain_values(dom, var) :
                          stack' = Append(stack,
                                     [var |-> var, values |-> values, k |-> 1])
                     /\ pc' = "candidates"
                     /\ UNCHANGED retval
  /\ UNCHANGED << first, grid, words, vorder, arcs, inferences, outcome >>

\* self.domains[var].remove(value), line 303: KeyError when value is gone.
remove_raises(dom, var, value) == value \notin dom[var]

\* Mutant of remove: the value stays in the domain.
remove_nothing(dom, var, value) == dom

\* Mutant of remove: the words of the other variables are put back when a
\* value is given up.
remove_and_restore(dom, var, value) ==
  [v \in DOMAIN dom |->
     IF v = var THEN dom[v] \ {value}
     ELSE { word \in words : Len(word) = v.length }]

remove(dom, var, value) == [dom EXCEPT ![var] = @ \ {value}]

\* Mutant of after_failed_call: the commitment of var is undone.
after_failed_call_undone(asg, var) == [asg EXCEPT ![var] = None]

\* Lines 298-303: when the recursive call has returned None the loop goes
\* on with the assignment dict as the call left it; assignment[var] keeps
\* the value of line 284.
after_failed_call(asg, var) == asg

\* backtrack, lines 279-291 and 303: the next value of the loop.  A value
\* that is not consistent is removed at line 303; a consistent one is
\* committed and ac3 is called on the arcs (y, var).  After the last value
\* the call returns None.
NextCandidate ==
  /\ pc = "candidates"
  /\ LET frame == stack[Len(stack)]
         var   == frame.var
     IN IF frame.k > Len(frame.values)
          THEN /\ stack' = SubSeq(stack, 1, Len(stack) - 1)
               /\ retval' = "None"
               /\ pc' = "return"
               /\ UNCHANGED << domains, assignment, arcs, outcome >>
          ELSE LET value == frame.values[frame.k]
                   temp_assignment == [assignment EXCEPT ![var] = value]
               IN IF consistent(temp_assignment)
                    THEN /\ assignment' = temp_assignment
                         /\ arcs' \in seeded_arcs(var)
                         /\ pc' = "ac3_loop"
                         /\ UNCHANGED << domains, stack, retval, outcome >>
                    ELSE IF remove_raises(domains, var, value)
                      THEN /\ outcome' = "KeyError"
                           /\ pc' = "done"
                           /\ UNCHANGED << domains, assignment, arcs, stack,
                                           retval >>
                      ELSE /\ domains' = remove(domains, var, value)
                           /\ stack' = [stack EXCEPT ![Len(stack)].k = @ + 1]
                           /\ UNCHANGED << assignment, arcs, retval, pc,
                                           outcome >>
  /\ UNCHANGED << first, grid, words, vorder, inferences >>

\* A backtrack call has returned: to solve() (line 94), or to the call
\* that made it (lines 298-303).
BacktrackReturn ==
  /\ pc = "return"
  /\ IF stack = <<>>
       THEN /\ outcome' = "returned"
            /\ pc' = "done"
            /\ UNCHANGED << domains, assignment, stack, retval >>
       ELSE LET frame == stack[Len(stack)]
                var   == frame.var
                value == frame.values[frame.k]
            IN IF retval # "None"
                 THEN /\ stack' = SubSeq(stack, 1, Len(stack) - 1)
                      /\ UNCHANGED << domains, assignment, retval, pc,
                                      outcome >>
                 ELSE IF remove_raises(domains, var, value)
                   THEN /\ outcome' = "KeyError"
                        /\ pc' = "done"
                        /\ UNCHANGED << domains, assignment, stack, retval >>
                   ELSE /\ domains' = remove(domains, var, value)
                        /\ assignment' = after_failed_call(assignment, var)
                        /\ stack' = [stack EXCEPT ![Len(stack)].k = @ + 1]
                        /\ pc' = "candidates"
                        /\ UNCHANGED << retval, outcome >>
  /\ UNCHANGED << first, grid, words, vorder, arcs, inferences >>

Next ==
  \/ EnforceNodeConsistency
  \/ Ac3InitialArcs
  \/ Ac3Revise
  \/ Ac3ReturnTrue
  \/ ForcedInferences
  \/ BacktrackEnter
  \/ NextCandidate
  \/ BacktrackReturn

Spec == Init /\ [][Next]_vars

\* The program is sequential: it takes its next step as long as it has one.
FairSpec == Spec /\ WF_vars(Next)

\* main() run a second time on the same structure and words files, in a
\* new process (a new iteration order), after a run that returned; `first`
\* keeps what the first run returned.
Rerun ==
  /\ pc = "done"
  /\ outcome = "returned"
  /\ first = NoRun
  /\ first' = [retval |-> retval,
               assignment |-> IF retval = "None" THEN <<>> ELSE assignment]
  /\ vorder' \in Orders(variables)
  /\ domains' = [var \in variables |-> words]
  /\ assignment' = <<>>
  /\ arcs' = <<>>
  /\ stack' = <<>>
  /\ inferences' = TRUE
  /\ retval' = "None"
  /\ pc' = "solve"
  /\ outcome' = "running"
  /\ UNCHANGED << grid, words >>

NextTwoRuns == Next \/ Rerun

SpecTwoRuns == Init /\ [][NextTwoRuns]_vars

\* ------------------------------------------------------------- vocabulary
\* of the claims

\* solve() has returned (not raised).
Returned == pc = "done" /\ outcome = "returned"

ReturnedAssignment == Returned /\ retval = "assignment"

ReturnedNone == Returned /\ retval = "None"

\* The two words fit at the cell x and y share, and differ.
Fit(x, x_word, y, y_word) ==
  /\ x_word[overlaps(x, y)[1] + 1] = y_word[overlaps(x, y)[2] + 1]
  /\ x_word # y_word

\* asg gives every variable a word, and neighbouring words fit.
CompleteAndConsistent(asg) ==
  /\ DOMAIN asg = variables
  /\ \A x \in variables : asg[x] # None
  /\ \A x \in variables : \A y \in neighbors(x) : Fit(x, asg[x], y, asg[y])

\* The solutions of the puzzle: every variable has a word of the vocabulary
\* of its length, and neighbouring words fit.
SolutionsTable ==
  [g \in Grids |-> [ws \in SUBSET Lexicon |->
     { a \in [GridVariables[g] -> ws] :
         /\ \A x \in GridVariables[g] : Len(a[x]) = x.length
         /\ \A x \in GridVariables[g] : \A y \in neighborsTable[g][x] :
               /\ a[x][overlaps(x, y)[1] + 1] = a[y][overlaps(x, y)[2] + 1]
               /\ a[x] # a[y] }]]

Solutions == SolutionsTable[grid][words]

\* ------------------------------------------------------------------ claims

\* C1: whenever solve() returns an assignment, the assignment is complete
\* and consistent: every pair of neighbouring variables has words that
\* agree at the overlap and are different words.
C1_ReturnedAssignmentConsistent ==
  ReturnedAssignment => CompleteAndConsistent(assignment)

\* C2: in an assignment returned by solve(), any two distinct variables
\* have different words, neighbours or not.
C2_ReturnedWordsDistinct ==
  ReturnedAssignment =>
    \A x \in variables : \A y \in variables \ {x} :
       assignment[x] # assignment[y]

\* C3: on a puzzle with exactly one solution, solve() returns exactly that
\* assignment: when solve() has ended, it has returned it.
C3_UniqueSolutionReturned ==
  (pc = "done" /\ Cardinality(Solutions) = 1) =>
    (ReturnedAssignment /\ assignment \in Solutions)

\* C4: solve() never ends in a thrown fault: it ends by returning an
\* assignment or None; line 303 never removes a word that is not in the
\* domain.
C4_NoFault ==
  pc = "done" => outcome = "returned"

\* C5: if node consistency leaves some variable's domain empty (no word of
\* the vocabulary has its length), solve() returns None.
NodeEmptied(v) == \A word \in words : Len(word) # v.length

C5_EmptyNodeDomainReturnsNone ==
  (pc = "done" /\ \E v \in variables : NodeEmptied(v)) => ReturnedNone

\* solve() returned None on a puzzle where a variable with neighbours lost
\* every word to node consistency, other variables kept words, and the
\* global ac3() call had returned False.
C5_Witness ==
  /\ ReturnedNone
  /\ ~ inferences
  /\ \E v \in variables : NodeEmptied(v) /\ neighbors(v) # {}
  /\ \E v \in variables : ~ NodeEmptied(v)

\* The global ac3() call of solve() has just returned.
AfterGlobalAc3 == pc = "backtrack" /\ assignment = <<>>

\* C6: after the global ac3() call returns True, every word left in x's
\* domain has, for every neighbour y of x, a fitting word in y's domain.
C6_GlobalAc3ArcConsistent ==
  (AfterGlobalAc3 /\ inferences) =>
    \A x \in variables : \A y \in neighbors(x) : \A w \in domains[x] :
       \E w2 \in domains[y] : Fit(x, w, y, w2)

\* The global call returned True after revisions took words out of the
\* domain of a variable with neighbours, and left it some.
C6_Witness ==
  /\ AfterGlobalAc3
  /\ inferences
  /\ \E x \in variables :
        /\ neighbors(x) # {}
        /\ domains[x] # {}
        /\ domains[x] # { w \in words : Len(w) = x.length }

\* An ac3 call has just returned: the global one, or the one backtrack
\* made at line 291.
Ac3Returned == AfterGlobalAc3 \/ pc = "inferences"

\* C7: ac3 returns True only if no domain is empty when it returns, and
\* False if some domain is empty.
C7_Ac3TrueIffNoDomainEmpty ==
  Ac3Returned => (inferences <=> \A v \in variables : domains[v] # {})

\* C8: once enforce_node_consistency has run, every word of every domain
\* and every assigned word is a word of the vocabulary of the variable's
\* length.
C8_WordsOfVocabularyAndLength ==
  pc # "solve" =>
    \A v \in variables :
       /\ \A w \in domains[v] : w \in words /\ Len(w) = v.length
       /\ (assignment # <<>> /\ assignment[v] # None) =>
            (assignment[v] \in words /\ Len(assignment[v]) = v.length)

\* A call of backtrack starts with a variable that was assigned by pop()
\* (eagerly or by forced inference: its domain is empty) and a variable
\* that holds a value committed by the search (still in its domain), in a
\* vocabulary with words of two lengths.
C8_Witness ==
  /\ pc = "backtrack"
  /\ assignment # <<>>
  /\ \E v \in variables : assignment[v] # None /\ domains[v] = {}
  /\ \E v \in variables : assignment[v] # None /\ assignment[v] \in domains[v]
  /\ \E w1 \in words : \E w2 \in words : Len(w1) # Len(w2)

\* C9: two runs of solve() on the same puzzle that differ only in the
\* iteration orders both return an assignment or both return None, and on
\* a puzzle with one solution both return that solution.
C9_ResultIndependentOfOrder ==
  (Returned /\ first # NoRun) =>
    /\ retval = first.retval
    /\ Cardinality(Solutions) = 1 =>
         (retval = "assignment" /\ assignment \in Solutions
            /\ first.assignment = assignment)

\* A turn of the ac3 loop that leaves the list no shorter has taken words
\* out of a domain: an arc is put back only after a domain strictly shrank.
RequeueOnlyAfterShrink ==
  (pc = "ac3_loop" /\ pc' = "ac3_loop" /\ Len(arcs') >= Len(arcs)) =>
    \E x \in variables :
       domains'[x] \subseteq domains[x] /\ domains'[x] # domains[x]

\* The backtrack calls in their loop are on different variables, so the
\* recursion is no deeper than the number of variables.
DepthBounded ==
  \A m \in 1 .. Len(stack) : \A n \in 1 .. Len(stack) :
     stack[m].var = stack[n].var => m = n

\* solve() ends after finitely many steps, by a return or an exception:
\* ac3 and the recursion make progress, and the run goes on until it ends.
TerminationArgument ==
  /\ [][RequeueOnlyAfterShrink]_vars
  /\ [](DepthBounded /\ (pc # "done" => ENABLED Next))

\* C10: solve() eventually finishes: an arc is re-enqueued only after a
\* domain strictly shrank, the recursion is bounded, the run goes on until
\* solve() ends, and it ends with the search having reached success or
\* exhaustion (it returns an assignment or None).
C10_SearchEndsInSuccessOrExhaustion ==
  /\ [][RequeueOnlyAfterShrink]_vars
  /\ [](DepthBounded /\ (pc # "done" => ENABLED Next))
  /\ [](pc = "done" => outcome = "returned")

\* solve() eventually ends, by a return or by an exception.
EventuallyEnds == <>(pc = "done")

\* ---------------------------------------------------- ac3 called directly
\* ac3(arcs) is a method of its own: a caller that has made the domains
\* node consistent calls it with arcs = None or with a list of arcs.

\* A list given to ac3 holds at most MaxArcs arcs.
MaxArcs == 2

\* The arcs (x, y) of the problem.
Arcs == { a \in variables \X variables : a[2] \in neighbors(a[1]) }

\* The sets of arcs a caller may give.
ArcSets == { S \in SUBSET Arcs : S # {} /\ Cardinality(S) <= MaxArcs }

\* One whole call of ac3, lines 136-168, on the list as.
Ac3Call(as) ==
  /\ pc = "ac3"
  /\ \E r \in ac3_results(domains, as) :
        /\ domains' = r.domains
        /\ inferences' = r.result
  /\ UNCHANGED << first, grid, words, vorder, assignment, arcs, stack, retval,
                  pc, outcome >>

\* The caller's first call, on a list of arcs of its own.
CallAc3OnList ==
  /\ domains = node_consistent([var \in variables |-> words])
  /\ \E as \in UNION { Orders(S) : S \in ArcSets } : Ac3Call(as)

\* A call with arcs = None, lines 145-150.
CallAc3OnAllArcs ==
  \E as \in initial_arcs(vorder, 1) : Ac3Call(as)

NextCalls == EnforceNodeConsistency \/ CallAc3OnList \/ CallAc3OnAllArcs

SpecCalls == Init /\ [][NextCalls]_vars

\* What the calls that start with the arcs of S, in any order, may give.
ResultsOf(S) == UNION { ac3_results(domains, as) : as \in Orders(S) }

\* The results agree: one boolean, and when it is True one final domains.
Agree(results) ==
  \A r1 \in results : \A r2 \in results :
     /\ r1.result = r2.result
     /\ r1.result => r1.domains = r2.domains

\* C11: the outcome of ac3 does not depend on the order in which the arcs
\* are taken: from the same domains and the same multiset of arcs every
\* order gives the same boolean, and when it is True the same domains.
C11_Ac3OrderIndependent ==
  pc = "ac3" => \A S \in ArcSets : Agree(ResultsOf(S))

\* The lists ac3 builds when arcs = None: every arc of the problem, in the
\* order of this process (vorder) and in that of a process with one fixed
\* order of the variables, with which every process is compared.
AllArcsLists ==
  initial_arcs(vorder, 1)
    \cup initial_arcs(CHOOSE order \in Orders(variables) : TRUE, 1)

AllArcsResults == UNION { ac3_results(domains, as) : as \in AllArcsLists }

\* C11 as amended: when the list holds every arc of the problem (arcs =
\* None), every order gives the same boolean, and when it is True the same
\* domains.
C11_Ac3OrderIndependentOnAllArcs ==
  pc = "ac3" => Agree(AllArcsResults)

\* A call on all arcs is about to be made from domains an earlier call on
\* some arcs has left not arc consistent; it returns True after taking
\* words out of the domains of two variables at least.
C11_Witness ==
  /\ pc = "ac3"
  /\ \E v \in variables : domains[v] # { w \in words : Len(w) = v.length }
  /\ \E r \in AllArcsResults :
        /\ r.result
        /\ Cardinality({ v \in variables : r.domains[v] # domains[v] }) >= 2

\* The loop of the innermost backtrack call is at a candidate.
HasCandidate ==
  /\ pc = "candidates"
  /\ stack[Len(stack)].k <= Len(stack[Len(stack)].values)

\* The variable the innermost call selected, and the candidate it is at.
SelectedVar == stack[Len(stack)].var

Candidate == stack[Len(stack)].values[stack[Len(stack)].k]

\* The next step of solve() commits the candidate and calls ac3 for it.
CommitsNext ==
  /\ HasCandidate
  /\ consistent([assignment EXCEPT ![SelectedVar] = Candidate])

\* The candidate is not consistent with the assigned neighbours.
SkipsNext ==
  /\ HasCandidate
  /\ ~ consistent([assignment EXCEPT ![SelectedVar] = Candidate])

\* The calls of ac3 that solve() makes (the global one, and those of
\* backtrack on the arcs (y, var)) do not depend on the order either.
SolveAc3OrderIndependent ==
  /\ pc = "ac3" => Agree(AllArcsResults)
  /\ CommitsNext =>
       Agree(UNION { ac3_results(domains, as) :
                       as \in seeded_arcs(SelectedVar) })

\* C12: a candidate that is not consistent with the assigned neighbours is
\* skipped without a recursive call and is not removed from the domain of
\* the selected variable: the domain is the same after it as before.
C12_SkippedCandidateStaysInDomain ==
  [][SkipsNext =>
       /\ pc' # "ac3_loop"
       /\ domains'[SelectedVar] = domains[SelectedVar]]_vars

\* C13: after a candidate is committed and the seeded ac3 call has
\* returned, True or False, every variable that is still unassigned and
\* whose domain holds exactly one word is assigned that word before the
\* recursive call of backtrack.
C13_ForcedInferencesAfterAc3 ==
  [][pc = "inferences" =>
       \A v \in variables :
          (assignment[v] = None /\ Cardinality(domains[v]) = 1) =>
             assignment'[v] \in domains[v]]_vars

\* C13 as amended: when the seeded ac3 call returned True, every variable
\* that is still unassigned and whose domain holds exactly one word is
\* assigned that word, and no other variable changes, before the recursive
\* call; when it returned False the assignment is left as it is.
C13_ForcedInferencesAfterAc3True ==
  [][pc = "inferences" =>
       /\ pc' = "backtrack"
       /\ \A v \in variables :
             IF inferences /\ assignment[v] = None
                  /\ Cardinality(domains[v]) = 1
               THEN assignment'[v] \in domains[v]
               ELSE assignment'[v] = assignment[v]]_vars

\* The seeded ac3 call has returned True and a variable is unassigned with
\* one word in its domain, after an earlier recursive call has failed.
C13_Witness ==
  /\ pc = "inferences"
  /\ inferences
  /\ \E v \in variables : assignment[v] = None /\ Cardinality(domains[v]) = 1
  /\ \E n \in 1 .. Len(stack) : stack[n].k > 1

\* C14: at every invocation of backtrack (the root call once the eager
\* assignments are made, and every recursive call) the assignment is
\* consistent: assigned neighbours match at their overlap and differ.
C14_BacktrackAssignmentConsistent ==
  [][pc = "backtrack" => consistent(assignment')]_vars

\* C15: throughout solve() every domain only shrinks: in every step the
\* new domain of each variable is a subset of the previous one; the words
\* propagation removed inside a branch are not put back when the branch
\* fails and the search moves to the next candidate.
C15_DomainsOnlyShrink ==
  [][\A v \in variables : domains'[v] \subseteq domains[v]]_vars

\* The search is at a later candidate of a call (an earlier one was given
\* up), and a variable that no call in progress selected is unassigned
\* with some but not all the words node consistency left it.
C15_Witness ==
  /\ HasCandidate
  /\ stack[Len(stack)].k > 1
  /\ \E v \in variables :
        /\ \A n \in 1 .. Len(stack) : stack[n].var # v
        /\ assignment[v] = None
        /\ domains[v] # {}
        /\ domains[v] # { word \in words : Len(word) = v.length }

\* ac3 is about to call revise on the arc it takes from the list.
RevisesNext == pc = "ac3_loop" /\ arcs # <<>>

RevisedX == arcs[Len(arcs)][1]

RevisedY == arcs[Len(arcs)][2]

\* C16: revise(x, y) leaves in x's domain exactly the words w of the
\* previous domain for which some word w' of y's domain has the same letter
\* at the overlap and is a different word, returns True if and only if at
\* least one word was removed, and leaves every other domain unchanged.
C16_ReviseKeepsSupportedWords ==
  [][RevisesNext =>
       /\ domains'[RevisedX] =
            { w \in domains[RevisedX] :
                \E w2 \in domains[RevisedY] : Fit(RevisedX, w, RevisedY, w2) }
       /\ revise(domains, RevisedX, RevisedY)
            <=> domains'[RevisedX] # domains[RevisedX]
       /\ \A v \in variables \ {RevisedX} : domains'[v] = domains[v]]_vars

\* revise is about to take some but not all words out of x's domain, one
\* of them a word whose only match at the overlap in y's domain is the
\* same word.
C16_Witness ==
  /\ RevisesNext
  /\ revised_domain(domains, RevisedX, RevisedY) # {}
  /\ \E w \in domains[RevisedX] \ revised_domain(domains, RevisedX, RevisedY) :
        w \in domains[RevisedY]
          /\ w[overlaps(RevisedX, RevisedY)[1] + 1]
               = w[overlaps(RevisedX, RevisedY)[2] + 1]

\* C17: select_unassigned_variable returns an unassigned variable whose
\* domain is smallest among the unassigned variables and that has the most
\* neighbours among the unassigned variables of that domain size, for
\* every iteration order of the assignment.
C17_SelectsMinimumRemainingMaxDegree ==
  [][(pc = "backtrack" /\ pc' = "candidates") =>
       LET var == stack'[Len(stack')].var
       IN /\ assignment'[var] = None
          /\ \A u \in variables :
                assignment'[u] = None =>
                  /\ Cardinality(domains'[var]) <= Cardinality(domains'[u])
                  /\ Cardinality(domains'[var]) = Cardinality(domains'[u]) =>
                       Cardinality(neighbors(u))
                         <= Cardinality(neighbors(var))]_vars

\* A call has just selected its variable, and an unassigned variable with
\* as many values and fewer neighbours comes earlier in the iteration.
C17_Witness ==
  /\ HasCandidate
  /\ stack[Len(stack)].k = 1
  /\ assignment[SelectedVar] = None
  /\ \E m \in 1 .. Len(vorder) : \E n \in 1 .. Len(vorder) :
        /\ m < n
        /\ vorder[n] = SelectedVar
        /\ assignment[vorder[m]] = None
        /\ Cardinality(domains[vorder[m]]) = Cardinality(domains[SelectedVar])
        /\ Cardinality(neighbors(vorder[m]))
             < Cardinality(neighbors(SelectedVar))

\* The number of pairs (neighbour n of var, word w2 of n's domain) that the
\* word w of var rules out: w and w2 mismatch at the overlap or are the
\* same word.
RuledOut(dom, var, w) ==
  Cardinality({ p \in neighbors(var) \X words :
                  p[2] \in dom[p[1]] /\ ~ Fit(var, w, p[1], p[2]) })

\* C18: order_domain_values returns every word of var's domain exactly
\* once, in non-decreasing order of the ruled-out count, and modifies no
\* domain.
C18_ValuesOrderedByRuledOut ==
  [][(pc = "backtrack" /\ pc' = "candidates") =>
       LET var == stack'[Len(stack')].var
           values == stack'[Len(stack')].values
       IN /\ { values[n] : n \in 1 .. Len(values) } = domains'[var]
          /\ Len(values) = Cardinality(domains'[var])
          /\ \A m \in 1 .. Len(values) : \A n \in 1 .. Len(values) :
                m < n => RuledOut(domains', var, values[m])
                           <= RuledOut(domains', var, values[n])
          /\ assignment # <<>> => domains' = domains]_vars

\* A recursive call has just ordered three values or more, the first of
\* which rules out fewer words than the last.
C18_Witness ==
  /\ HasCandidate
  /\ stack[Len(stack)].k = 1
  /\ Len(stack) > 1
  /\ Len(stack[Len(stack)].values) >= 3
  /\ RuledOut(domains, SelectedVar, stack[Len(stack)].values[1])
       < RuledOut(domains, SelectedVar,
                  stack[Len(stack)].values[Len(stack[Len(stack)].values)])

\* Some unassigned variable has an empty domain.
EmptyUnassigned ==
  /\ assignment # <<>>
  /\ \E v \in variables : assignment[v] = None /\ domains[v] = {}

\* C19: failure of a recursive call is final.  When an invocation of
\* backtrack returns None some unassigned variable has an empty domain;
\* that stays so for the rest of the run; and solve() does not return an
\* assignment in such a state: once an invocation has returned None,
\* solve() does not return an assignment.
C19_FailureIsFinal ==
  /\ [][(pc = "candidates" /\ pc' = "return") =>
          (retval' = "None" /\ EmptyUnassigned')]_vars
  /\ [][EmptyUnassigned => EmptyUnassigned']_vars
  /\ [](ReturnedAssignment => ~ EmptyUnassigned)

\* A recursive call has returned None and the call that made it goes on to
\* commit its next candidate, while an unassigned variable has an empty
\* domain.
C19_Witness ==
  /\ CommitsNext
  /\ stack[Len(stack)].k > 1
  /\ retval = "None"
  /\ EmptyUnassigned
  /\ assignment[SelectedVar] # None

\* The variables the backtrack calls in progress have selected.
InSearch == { stack[n].var : n \in 1 .. Len(stack) }

\* C20: the assignment is one shared mapping that is never undone.  A
\* variable that has a word never returns to unassigned, also when the
\* recursive call made under its commitment has failed; and a variable
\* that no call in progress selected (assigned eagerly, by forced
\* inference or by a call that has returned) keeps its word.
C20_AssignmentNeverUndone ==
  [][assignment # <<>> =>
       \A v \in variables :
          assignment[v] # None =>
            /\ assignment'[v] # None
            /\ v \notin InSearch => assignment'[v] = assignment[v]]_vars

\* The recursive call made under a commitment has failed: the loop is at
\* its next candidate and the selected variable still has the word of the
\* candidate that failed, while a variable that no call in progress
\* selected is assigned.
C20_Witness ==
  /\ HasCandidate
  /\ stack[Len(stack)].k > 1
  /\ assignment[SelectedVar]
       = stack[Len(stack)].values[stack[Len(stack)].k - 1]
  /\ \E v \in variables \ InSearch : assignment[v] # None

====
